---- MODULE Spec2Model ----
(***************************************************************************)
(* Model of the node-graph evaluation engine of block-egui (src/app.rs):   *)
(* the graph edited through NodeGraphApp::update, and the recursive        *)
(* evaluate_node / evaluate_input pair with its outputs cache.             *)
(*                                                                         *)
(* A node is identified by a small integer, an input port by the pair      *)
(* <<node, name>> and an output port by <<node, "out">>.  The recursion of *)
(* evaluate_node is an explicit stack of frames, one per active call.      *)
(***************************************************************************)
EXTENDS Integers, Sequences, FiniteSets, TLC

\* ------------------------------------------------------------------------
\* Bounds of the model
\* ------------------------------------------------------------------------
MaxNodes == 3

MaxConns == 2

MaxDepth == 4

\* ------------------------------------------------------------------------
\* Identities and values
\* ------------------------------------------------------------------------
NodeIds == 1..MaxNodes

\* Option::None of a NodeId
NoNode == 0

\* the input ports build_node declares, in declaration order
NodeInputs == <<"A", "B">>

\* the output ports build_node declares
NodeOutputs == <<"out">>

InputIds == NodeIds \X {"A", "B"}

OutputIds == NodeIds \X {"out"}

\* Option::None of graph.connection(input_id)
NoConn == <<NoNode, "out">>

\* the inline value build_node stores on every input
DefaultParams == "DefaultParams"

\* a second inline value, used only by the shadow graph of ShadowValue
OtherParams == "OtherParams"

\* the single variant of NodeType, the cache's value type
Component == "Component"

\* HashMap::new()
EmptyCache == [o \in {} |-> Component]

\* the argument names of the node_input calls in evaluate_node's body
Steps == <<"A", "B", "out">>

VARIABLES
    nodes,          \* graph.nodes: the node ids present
    connections,    \* graph.connections: input id -> connected output id or NoConn
    value,          \* graph.inputs[id].value: the inline literal
    active_node,    \* user_state.active_node
    stale,          \* the active node id the last update step found missing, or NoNode
    phase,          \* "idle" | "eval" | "done" | "crashed"
    caller,         \* who issued the running / last top-level call
    top,            \* node_id of the running / last top-level call
    cache0,         \* the cache handed to the running / last top-level call
    outputs_cache,  \* the OutputsCache of the running / last pass
    stack,          \* the active evaluate_node calls, outermost first
    calls,          \* evaluate_node invocations per node in this pass
    result          \* outcome of the running / last pass

vars == <<nodes, connections, value, active_node, stale, phase, caller, top, cache0,
          outputs_cache, stack, calls, result>>

graphVars == <<nodes, connections, value>>

NoResult == [kind |-> "None", value |-> "None", shadow |-> "None",
             msg |-> "", err |-> "", node |-> NoNode]

OkResult(v, sv) == [kind |-> "Ok", value |-> v, shadow |-> sv,
                    msg |-> "", err |-> "", node |-> NoNode]

PanicResult(m, e, n) == [kind |-> "Panic", value |-> "None", shadow |-> "None",
                         msg |-> m, err |-> e, node |-> n]

OverflowResult(n) == [kind |-> "StackOverflow", value |-> "None", shadow |-> "None",
                      msg |-> "", err |-> "", node |-> n]

\* ------------------------------------------------------------------------
\* Graph store
\* ------------------------------------------------------------------------
ConnCount(c) == Cardinality({i \in InputIds : c[i] # NoConn})

\* Node::get_input: the input of that name, or NoParameterNamed
get_input(node_id, name) ==
    IF \E k \in DOMAIN NodeInputs : NodeInputs[k] = name
    THEN [ok |-> TRUE, id |-> <<node_id, name>>]
    ELSE [ok |-> FALSE, id |-> <<node_id, name>>]

\* Node::get_output: the output of that name, or NoParameterNamed
get_output(node_id, name) ==
    IF \E k \in DOMAIN NodeOutputs : NodeOutputs[k] = name
    THEN [ok |-> TRUE, id |-> <<node_id, name>>]
    ELSE [ok |-> FALSE, id |-> <<node_id, name>>]

\* NodeTemplate::build_node: inputs "A" and "B" with the default inline
\* value and no connection, output "out"
build_node(g, node_id) ==
    [nodes |-> g.nodes \cup {node_id},
     connections |-> [i \in InputIds |->
                        IF i[1] = node_id THEN NoConn ELSE g.connections[i]],
     value |-> [i \in InputIds |->
                        IF i[1] = node_id THEN DefaultParams ELSE g.value[i]]]

\* the smallest id not in use: the key of the node the editor adds
FreshNode(g) == CHOOSE n \in NodeIds \ g.nodes : \A m \in NodeIds \ g.nodes : n <= m

\* Graph::remove_node: the node, its ports and every connection from or to it
remove_node(g, node_id) ==
    [nodes |-> g.nodes \ {node_id},
     connections |-> [i \in InputIds |->
                        IF i[1] = node_id \/ g.connections[i][1] = node_id
                        THEN NoConn ELSE g.connections[i]],
     value |-> [i \in InputIds |->
                        IF i[1] = node_id THEN "NoValue" ELSE g.value[i]]]

NoEdit == [op |-> "none", node |-> NoNode, input |-> <<NoNode, "A">>, output |-> NoConn]

\* the edits one call of draw_graph_editor can make to the graph g
EditorEdits(g) ==
    {NoEdit}
    \cup (IF g.nodes = NodeIds THEN {} ELSE {[NoEdit EXCEPT !.op = "add"]})
    \cup {[NoEdit EXCEPT !.op = "delete", !.node = n] : n \in g.nodes}
    \cup {[NoEdit EXCEPT !.op = "connect", !.input = io[1], !.output = io[2]] :
            io \in {x \in InputIds \X OutputIds :
                      /\ x[1][1] \in g.nodes
                      /\ x[2][1] \in g.nodes
                      /\ ConnCount([g.connections EXCEPT ![x[1]] = x[2]]) <= MaxConns}}
    \cup {[NoEdit EXCEPT !.op = "disconnect", !.input = i] :
            i \in {j \in InputIds : g.connections[j] # NoConn}}

\* the graph after draw_graph_editor has applied the edit e
draw_graph_editor(g, e) ==
    CASE e.op = "add" -> build_node(g, FreshNode(g))
      [] e.op = "delete" -> remove_node(g, e.node)
      [] e.op = "connect" -> [g EXCEPT !.connections[e.input] = e.output]
      [] e.op = "disconnect" -> [g EXCEPT !.connections[e.input] = NoConn]
      [] OTHER -> g

\* the user events draw_graph_editor can report for the nodes it drew
UserEvents(g) ==
    {[ev |-> "none", node |-> NoNode], [ev |-> "clear", node |-> NoNode]}
    \cup {[ev |-> "set", node |-> n] : n \in g.nodes}

\* what one call of draw_graph_editor can hand back: one edit or one user
\* event, or the deletion of a node together with an event of that frame
NoEvent == [ev |-> "none", node |-> NoNode]

EditorResponses(g) ==
    {<<e, NoEvent>> : e \in EditorEdits(g)}
    \cup {<<NoEdit, u>> : u \in UserEvents(g)}
    \cup {<<e, u>> : e \in {x \in EditorEdits(g) : x.op = "delete"}, u \in UserEvents(g)}

\* the loop over graph_response.node_responses: SetActiveNode / ClearActiveNode
\* (the source writes the field as activate_node; GraphState has active_node only)
apply_event(active, e) ==
    CASE e.ev = "set" -> e.node
      [] e.ev = "clear" -> NoNode
      [] OTHER -> active

\* ------------------------------------------------------------------------
\* Evaluation
\* ------------------------------------------------------------------------
\* Evaluator::new: the frame of one evaluate_node call, before its first input
Frame(node_id) ==
    [node_id |-> node_id, pc |-> 1,
     a |-> "None", b |-> "None", sa |-> "None", sb |-> "None"]

\* the literals of a graph that differs from the current one exactly in the
\* inline values of its connected inputs
ShadowValue ==
    [i \in InputIds |-> IF connections[i] # NoConn THEN OtherParams ELSE value[i]]

\* graph.connection(input_id)
connection(input_id) == connections[input_id]

\* graph[output_id].node
output_node(output_id) == output_id[1]

\* cache_get with HashMap::remove in place of HashMap::get: a hit takes the
\* entry out of the cache
cache_get_remove(cache, other) ==
    IF other \in DOMAIN cache
    THEN [hit |-> TRUE, value |-> cache[other],
          cache |-> [o \in DOMAIN cache \ {other} |-> cache[o]]]
    ELSE [hit |-> FALSE, value |-> "None", cache |-> cache]

\* outputs_cache.get(&other_output_id): the lookup and the cache it leaves
cache_get(cache, other) ==
    IF other \in DOMAIN cache
    THEN [hit |-> TRUE, value |-> cache[other], cache |-> cache]
    ELSE [hit |-> FALSE, value |-> "None", cache |-> cache]

\* inline_value that yields NodeType::Component whatever the port holds
inline_value_component(val, input_id) == Component

\* graph[input_id].value
inline_value(val, input_id) == val[input_id]

\* evaluate_input that, on a cache hit, returns the port's own inline value
\* in place of the cached value of the connected output
evaluate_input_inline_on_hit(val, node_id, param_name, cache) ==
    LET l == get_input(node_id, param_name) IN
    IF ~l.ok
    THEN [tag |-> "Err", src |-> "get_input", value |-> "None",
          callee |-> NoNode, cache |-> cache]
    ELSE LET other == connection(l.id) IN
         IF other # NoConn
         THEN LET c == cache_get(cache, other) IN
              IF c.hit
              THEN [tag |-> "Ok", src |-> "cache", value |-> inline_value(val, l.id),
                    callee |-> NoNode, cache |-> c.cache]
              ELSE [tag |-> "Call", src |-> "cache", value |-> "None",
                    callee |-> output_node(other), cache |-> c.cache]
         ELSE [tag |-> "Ok", src |-> "literal", value |-> inline_value(val, l.id),
               callee |-> NoNode, cache |-> cache]

\* evaluate_input up to its recursive call: Err (unknown port), Ok (a value
\* from the cache or the inline literal) or Call (evaluate_node on callee)
evaluate_input(val, node_id, param_name, cache) ==
    LET l == get_input(node_id, param_name) IN
    IF ~l.ok
    THEN [tag |-> "Err", src |-> "get_input", value |-> "None",
          callee |-> NoNode, cache |-> cache]
    ELSE LET other == connection(l.id) IN
         IF other # NoConn
         THEN LET c == cache_get(cache, other) IN
              IF c.hit
              THEN [tag |-> "Ok", src |-> "cache", value |-> c.value,
                    callee |-> NoNode, cache |-> c.cache]
              ELSE [tag |-> "Call", src |-> "cache", value |-> "None",
                    callee |-> output_node(other), cache |-> c.cache]
         ELSE [tag |-> "Ok", src |-> "literal", value |-> inline_value(val, l.id),
               callee |-> NoNode, cache |-> cache]

\* populate_output: insert the value under the node's output id
populate_output(cache, node_id, param_name, v) ==
    LET l == get_output(node_id, param_name) IN
    IF ~l.ok
    THEN [tag |-> "Err", value |-> "None", cache |-> cache]
    ELSE [tag |-> "Ok", value |-> v,
          cache |-> [o \in DOMAIN cache \cup {l.id} |->
                        IF o = l.id THEN v ELSE cache[o]]]

RECURSIVE Deliver(_, _, _, _)
\* The top frame's node_input call has produced Ok(v) (sv in the shadow graph).
\* For "A" and "B" the value is bound to a / b and the body goes on; for the last
\* call the value is evaluate_node's return value: the frame is popped and the
\* caller's evaluate_input reads its connected output from the cache
\* (.expect("Cache should be populated")), which is again a value for the caller.
Deliver(stk, v, sv, cache) ==
    LET f == stk[Len(stk)]
        rest == SubSeq(stk, 1, Len(stk) - 1)
    IN  IF f.pc < Len(Steps)
        THEN [stack |-> [stk EXCEPT ![Len(stk)] =
                            IF f.pc = 1
                            THEN [f EXCEPT !.pc = 2, !.a = v, !.sa = sv]
                            ELSE [f EXCEPT !.pc = f.pc + 1, !.b = v, !.sb = sv]],
              result |-> NoResult]
        ELSE IF rest = <<>>
             THEN [stack |-> <<>>, result |-> OkResult(v, sv)]
             ELSE LET c == rest[Len(rest)]
                      other == connection(<<c.node_id, Steps[c.pc]>>)
                      g == cache_get(cache, other)
                  IN  IF g.hit
                      THEN Deliver(rest, g.value, g.value, cache)
                      ELSE [stack |-> <<>>,
                            result |-> PanicResult("Cache should be populated",
                                                   "CacheNotPopulated", c.node_id)]

\* where the program is once a pass has produced res: an Ok is formatted by
\* update (which goes on) or handed to the caller; a panic unwinds through
\* update and ends the application; a stack overflow ends the process
EndPhase(res, who) ==
    CASE res.kind = "None" -> "eval"
      [] res.kind = "StackOverflow" -> "crashed"
      [] res.kind = "Panic" -> IF who = "update" THEN "crashed" ELSE "done"
      [] OTHER -> IF who = "update" THEN "idle" ELSE "done"

ZeroCalls == [n \in NodeIds |-> 0]

Graph == [nodes |-> nodes, connections |-> connections, value |-> value]

\* the nodes whose output is connected to an input of a node of S
Upstream(S) ==
    {connections[i][1] : i \in {j \in InputIds : j[1] \in S /\ connections[j] # NoConn}}

RECURSIVE ReachFrom(_, _)
ReachFrom(S, k) == IF k = 0 THEN S ELSE ReachFrom(S \cup Upstream(S), k - 1)

\* the dependency subgraph reachable from node n, n included
Reach(n) == ReachFrom({n}, MaxNodes)

\* the caches a caller of evaluate_node can hand in, as far as the call on
\* node_id can tell them apart: it looks up outputs of its dependency subgraph only
Caches(node_id) ==
    UNION {[S -> {Component}] : S \in SUBSET {<<n, "out">> : n \in Reach(node_id)}}

\* contains_key that finds every key
contains_key_always(g, node_id) == TRUE

\* self.state.graph.nodes.contains_key(node)
contains_key(g, node_id) == node_id \in g.nodes

\* new_cache that hands on the map of the previous pass
new_cache_reuse(previous) == previous

\* HashMap::new() in update's call of evaluate_node
new_cache(previous) == EmptyCache

\* ------------------------------------------------------------------------
\* Initial state: NodeGraphApp::default(), an empty graph and no active node
\* ------------------------------------------------------------------------
Init ==
    /\ nodes = {}
    /\ connections = [i \in InputIds |-> NoConn]
    /\ value = [i \in InputIds |-> "NoValue"]
    /\ active_node = NoNode
    /\ stale = NoNode
    /\ phase = "idle"
    /\ caller = "none"
    /\ top = NoNode
    /\ cache0 = EmptyCache
    /\ outputs_cache = EmptyCache
    /\ stack = <<>>
    /\ calls = ZeroCalls
    /\ result = NoResult

\* ------------------------------------------------------------------------
\* Actions
\* ------------------------------------------------------------------------
\* NodeGraphApp::update: draw the editor (which may edit the graph and report a
\* user event), apply the event to the active node, then evaluate the active
\* node with a new cache if it is in the graph, or forget it if it is not
update ==
    /\ phase \in {"idle", "done"}
    /\ \E r \in EditorResponses(Graph) :
         LET e == r[1]
             u == r[2] IN
         LET g == draw_graph_editor(Graph, e)
             act == apply_event(active_node, u)
         IN  /\ nodes' = g.nodes
             /\ connections' = g.connections
             /\ value' = g.value
             /\ caller' = "update"
             /\ result' = NoResult
             /\ cache0' = new_cache(outputs_cache)
             /\ outputs_cache' = new_cache(outputs_cache)
             /\ stale' = IF act # NoNode /\ ~contains_key(g, act) THEN act ELSE NoNode
             /\ IF act # NoNode /\ contains_key(g, act)
                THEN /\ active_node' = act
                     /\ phase' = "eval"
                     /\ top' = act
                     /\ stack' = <<Frame(act)>>
                     /\ calls' = [ZeroCalls EXCEPT ![act] = 1]
                ELSE /\ active_node' = NoNode
                     /\ phase' = "idle"
                     /\ top' = NoNode
                     /\ stack' = <<>>
                     /\ calls' = ZeroCalls

\* a direct call of the public evaluate_node on the application's graph, with
\* a cache of the caller's choice
evaluate_node ==
    /\ phase \in {"idle", "done"}
    /\ \E node_id \in nodes : \E c \in Caches(node_id) :
         /\ phase' = "eval"
         /\ caller' = "api"
         /\ top' = node_id
         /\ cache0' = c
         /\ outputs_cache' = c
         /\ stack' = <<Frame(node_id)>>
         /\ calls' = [ZeroCalls EXCEPT ![node_id] = 1]
         /\ result' = NoResult
    /\ UNCHANGED <<graphVars, active_node, stale>>

\* the evaluate_input the top frame is about to make, on the graph and on its shadow
TopFrame == stack[Len(stack)]

TopInput == evaluate_input(value, TopFrame.node_id, Steps[TopFrame.pc], outputs_cache)

TopShadow == evaluate_input(ShadowValue, TopFrame.node_id, Steps[TopFrame.pc], outputs_cache)

Evaluating == phase = "eval" /\ stack # <<>>

\* node_input got Ok from evaluate_input: the value goes to the frame (or up)
Resolve ==
    /\ LET d == Deliver(stack, TopInput.value, TopShadow.value, TopInput.cache)
       IN  /\ stack' = d.stack
           /\ result' = d.result
           /\ phase' = EndPhase(d.result, caller)
    /\ outputs_cache' = TopInput.cache
    /\ UNCHANGED <<graphVars, active_node, stale, caller, top, cache0, calls>>

\* evaluate_input on an input without a connection: the inline value
node_input_literal ==
    /\ Evaluating
    /\ TopInput.tag = "Ok"
    /\ TopInput.src = "literal"
    /\ Resolve

\* evaluate_input on a connected input whose output is in the cache
node_input_cached ==
    /\ Evaluating
    /\ TopInput.tag = "Ok"
    /\ TopInput.src = "cache"
    /\ Resolve

\* evaluate_input on a connected input whose output is not in the cache:
\* the recursive evaluate_node on the node that owns the output
node_input_recurse ==
    /\ Evaluating
    /\ TopInput.tag = "Call"
    /\ Len(stack) < MaxDepth
    /\ stack' = Append(stack, Frame(TopInput.callee))
    /\ calls' = [calls EXCEPT ![TopInput.callee] = @ + 1]
    /\ outputs_cache' = TopInput.cache
    /\ UNCHANGED <<graphVars, active_node, stale, phase, caller, top, cache0, result>>

\* the same recursive call when the call stack is exhausted
node_input_overflow ==
    /\ Evaluating
    /\ TopInput.tag = "Call"
    /\ Len(stack) >= MaxDepth
    /\ stack' = <<>>
    /\ result' = OverflowResult(TopInput.callee)
    /\ phase' = EndPhase(OverflowResult(TopInput.callee), caller)
    /\ calls' = [calls EXCEPT ![TopInput.callee] = @ + 1]
    /\ outputs_cache' = TopInput.cache
    /\ UNCHANGED <<graphVars, active_node, stale, caller, top, cache0>>

\* evaluate_input returned Err (get_input found no such input):
\* node_input's .expect("failed") panics
node_input_failed ==
    /\ Evaluating
    /\ TopInput.tag = "Err"
    /\ stack' = <<>>
    /\ result' = PanicResult("failed", "NoParameterNamed", TopFrame.node_id)
    /\ phase' = EndPhase(PanicResult("failed", "NoParameterNamed", TopFrame.node_id), caller)
    /\ outputs_cache' = TopInput.cache
    /\ UNCHANGED <<graphVars, active_node, stale, caller, top, cache0, calls>>

Next ==
    \/ update
    \/ evaluate_node
    \/ node_input_literal
    \/ node_input_cached
    \/ node_input_recurse
    \/ node_input_overflow
    \/ node_input_failed

Spec == Init /\ [][Next]_vars

\* ------------------------------------------------------------------------
\* Dependency subgraph
\* ------------------------------------------------------------------------
\* some node reachable from n depends on itself
Cyclic(n) == \E m \in Reach(n) : m \in ReachFrom(Upstream({m}), MaxNodes)

\* a pass has produced its outcome
PassOver == result.kind # "None"

StackNodes == {stack[k].node_id : k \in DOMAIN stack}

\* ------------------------------------------------------------------------
\* Claims
\* ------------------------------------------------------------------------
\* C1: when a pass that started with an empty cache on an acyclic graph is
\* over, evaluate_node has been invoked exactly once on every node of the
\* dependency subgraph of the requested node.
C1_EachUpstreamOnce ==
    (PassOver /\ cache0 = EmptyCache /\ ~Cyclic(top))
        => \A n \in Reach(top) : calls[n] = 1

\* C2: a pass on a node whose dependency subgraph has a cycle ends with the
\* error CyclicDependency, and no node is ever twice on the active call path.
C2_CycleDetected ==
    /\ (PassOver /\ Cyclic(top)) => result.err = "CyclicDependency"
    /\ \A j, k \in DOMAIN stack : stack[j].node_id = stack[k].node_id => j = k

\* C3: a pass that started with an empty cache on an acyclic graph ends with
\* the value of the requested output, and the cache then holds exactly the
\* outputs of the nodes of the requested node's dependency subgraph.
C3_ResultAndCache ==
    (PassOver /\ cache0 = EmptyCache /\ ~Cyclic(top))
        => /\ result.kind = "Ok"
           /\ DOMAIN outputs_cache = {<<n, "out">> : n \in Reach(top)}

\* C4: during a pass, an output id that is in the cache stays in the cache
\* with the same value at every later step.
C4_WriteOnce ==
    [][phase = "eval" =>
         \A o \in DOMAIN outputs_cache :
            o \in DOMAIN outputs_cache' /\ outputs_cache'[o] = outputs_cache[o]]_vars

\* a pass that found entries in its cache, recursed into another node and is over
C4_Witness ==
    /\ PassOver
    /\ DOMAIN outputs_cache # {}
    /\ \E n \in NodeIds \ {top} : calls[n] > 0

\* C5: a failed port-name lookup reaches the top-level caller as an error
\* result, not as an abort.
C5_LookupErrorReturned ==
    result.err = "NoParameterNamed" => result.kind = "Err"

\* C6: the values the calls obtain for their inputs, and the result, are the
\* same on the graph and on the graph that differs in the inline values of
\* its connected inputs.
C6_ConnectedLiteralIgnored ==
    /\ \A k \in DOMAIN stack : stack[k].a = stack[k].sa /\ stack[k].b = stack[k].sb
    /\ result.value = result.shadow

\* a call has obtained the value of a connected input
C6_Witness ==
    \E k \in DOMAIN stack :
        /\ connections[<<stack[k].node_id, "A">>] # NoConn
        /\ stack[k].a = Component
        /\ ShadowValue[<<stack[k].node_id, "A">>] # value[<<stack[k].node_id, "A">>]

\* C7: resolving an input without a connection binds exactly the port's
\* inline value, calls no evaluate_node and leaves the cache as it is.
C7_UnconnectedInputLiteral ==
    [][(/\ Evaluating
        /\ TopFrame.pc <= Len(NodeInputs)
        /\ connections[<<TopFrame.node_id, Steps[TopFrame.pc]>>] = NoConn)
       => (/\ Len(stack') = Len(stack)
           /\ stack'[Len(stack)].pc = TopFrame.pc + 1
           /\ IF TopFrame.pc = 1
              THEN stack'[Len(stack)].a = value[<<TopFrame.node_id, "A">>]
              ELSE stack'[Len(stack)].b = value[<<TopFrame.node_id, "B">>]
           /\ \A k \in 1..(Len(stack) - 1) : stack'[k] = stack[k]
           /\ calls' = calls
           /\ outputs_cache' = outputs_cache)]_vars

\* a call on a node without connections holds the inline values of both inputs
C7_Witness ==
    \E k \in DOMAIN stack :
        /\ stack[k].pc = 3
        /\ connections[<<stack[k].node_id, "A">>] = NoConn
        /\ connections[<<stack[k].node_id, "B">>] = NoConn
        /\ stack[k].a = value[<<stack[k].node_id, "A">>]
        /\ stack[k].b = value[<<stack[k].node_id, "B">>]
        /\ stack[k].a = DefaultParams

\* C8: every evaluate_node call that update issues starts on an empty cache.
C8_UpdateFreshCache ==
    [][(phase # "eval" /\ phase' = "eval" /\ caller' = "update")
         => (outputs_cache' = EmptyCache /\ cache0' = EmptyCache)]_vars

\* update has started the evaluation of the active node
C8_Witness ==
    /\ phase = "eval"
    /\ caller = "update"
    /\ top = active_node
    /\ stack = <<Frame(top)>>

EvalStep ==
    \/ node_input_literal
    \/ node_input_cached
    \/ node_input_recurse
    \/ node_input_overflow
    \/ node_input_failed

RECURSIVE SumCalls(_)
SumCalls(n) == IF n = 0 THEN 0 ELSE calls[n] + SumCalls(n - 1)

\* the evaluate_node invocations of the pass
TotalCalls == SumCalls(MaxNodes)

\* Evaluator::node_output: the value stored for an output, whatever the inputs
node_output(a, b) == Component

RECURSIVE RefEval(_, _)
\* the evaluation without a cache: the template's computation on the
\* reference values of the connected inputs and the literals of the others
RefEval(n, k) ==
    IF k = 0 THEN "None"
    ELSE LET in(name) ==
                 IF connections[<<n, name>>] # NoConn
                 THEN RefEval(connections[<<n, name>>][1], k - 1)
                 ELSE value[<<n, name>>]
         IN  node_output(in("A"), in("B"))

\* C11: a call of evaluate_node on a node whose output is in the cache
\* resolves no input, evaluates no other node, leaves the cache as it is
\* and returns the cached value.
C11_CachedOutputReturned ==
    (top # NoNode /\ <<top, "out">> \in DOMAIN cache0)
        => /\ \A k \in DOMAIN stack : stack[k].a = "None" /\ stack[k].b = "None"
           /\ TotalCalls <= 1
           /\ outputs_cache = cache0
           /\ PassOver => (result.kind = "Ok" /\ result.value = cache0[<<top, "out">>])

RECURSIVE Pending(_, _)
\* the node_input calls the frames of the call stack stk have yet to make,
\* counting one more per frame for its return
Pending(stk, k) ==
    IF k = 0 THEN 0 ELSE (Len(Steps) + 1 - stk[k].pc) + Pending(stk, k - 1)

RECURSIVE SumOf(_, _)
SumOf(cls, n) == IF n = 0 THEN 0 ELSE cls[n] + SumOf(cls, n - 1)

\* the work a pass on node t has left when its call stack is stk and its
\* invocation counts are cls: the frames' pending calls and a whole body for
\* every node of the dependency subgraph that has not been invoked
Rank(t, stk, cls) ==
    (Len(Steps) + 1) * (Cardinality(Reach(t)) - SumOf(cls, MaxNodes)) + Pending(stk, Len(stk))

\* C12: on an acyclic graph every pass comes to its end with a value or an
\* error: a running pass can always take its next step, every step lowers the
\* work left, which is never negative, and the outcome is Ok or Err; and
\* evaluate_node is invoked at most once per node of the dependency subgraph
\* of the requested node.
C12_TerminatesWithinSubgraph ==
    /\ [](~Cyclic(top) =>
            /\ TotalCalls <= Cardinality(Reach(top))
            /\ PassOver => result.kind \in {"Ok", "Err"})
    /\ []((phase = "eval" /\ ~Cyclic(top)) => ENABLED EvalStep)
    /\ [][(phase = "eval" /\ ~Cyclic(top))
            => /\ Rank(top, stack', calls') < Rank(top, stack, calls)
               /\ Rank(top, stack', calls') >= 0]_vars

C14_MemoisationTransparent ==
    (PassOver /\ ~Cyclic(top))
        => (result.kind = "Ok" /\ result.value = RefEval(top, MaxNodes + 1))

\* C15: the active node is none or a node of the graph; update evaluates
\* the active node only, and a missing active node is dropped without any
\* evaluation.
C15_ActiveNodeInGraph ==
    /\ active_node = NoNode \/ active_node \in nodes
    /\ (caller = "update" /\ top # NoNode) => (top = active_node /\ top \in nodes)
    /\ (caller = "update" /\ stale # NoNode)
          => /\ stale \notin nodes
             /\ active_node = NoNode
             /\ phase = "idle"
             /\ stack = <<>>
             /\ TotalCalls = 0

\* update found the active node missing from the graph and dropped it
C15_Witness ==
    /\ caller = "update"
    /\ stale # NoNode
    /\ stale \notin nodes
    /\ active_node = NoNode
    /\ nodes # {}

====
